---- MODULE Spec2Model ----
(***************************************************************************)
(* servidor.py: the per-user payment provider configurations (table apis), *)
(* the handlers that add and activate them, and the handlers that create   *)
(* and check a Pix payment through the caller's active configuration.      *)
(*                                                                         *)
(* Every handler opens its own psycopg2 connection (get_db), so each       *)
(* request is one PostgreSQL transaction at the server's default isolation *)
(* level, READ COMMITTED: a statement sees the rows committed when it      *)
(* starts, an UPDATE locks each row it changes until its transaction ends, *)
(* waits for a row another transaction has locked, and the server aborts   *)
(* one transaction of a lock cycle with an error.                          *)
(***************************************************************************)
EXTENDS Integers, FiniteSets, Sequences, TLC

VARIABLES
    apis,      \* the committed rows of table apis
    nextId,    \* the next value of the SERIAL sequence of apis.id
    pc,        \* per request slot: where its handler stands
    call,      \* per request slot: the request its handler is working on
    todo,      \* per request slot: rows the running UPDATE has still to lock
    locked,    \* per request slot: rows its open transaction has updated
    setTrue,   \* per request slot: those of them it has set is_active = TRUE
    rowcount,  \* per request slot: cursor.rowcount
    resp       \* per request slot: the response its handler has returned

vars == <<apis, nextId, pc, call, todo, locked, setTrue, rowcount, resp>>

(***************************************************************************)
(* Bounds and input sets                                                   *)
(***************************************************************************)
MaxId == 2

Users == {1, 2}

Procs == {"r1", "r2"}

StoreProcs == {"r1"}

PayProcs == {"r2"}

Null == "NULL"

Names == {"a", "b"}

Cred(n) == [publicKey |-> <<"pk", n>>, secretKey |-> <<"sk", n>>,
            token |-> <<"tok", n>>]

\* The bodies POST /apis is called with: name, type and credential fields.
StoreInputs ==
    { [name |-> n, type |-> "oasyfy", cred |-> Cred(1)] : n \in Names \cup {Null} }

PayInputs ==
    { [name |-> "a", type |-> "oasyfy",    cred |-> Cred(1)],
      [name |-> "b", type |-> "pushinpay", cred |-> Cred(2)],
      [name |-> "a", type |-> "ghostpay",  cred |-> Cred(3)],
      [name |-> "b", type |-> "stripe",    cred |-> Cred(4)] }

JNull == [t |-> "null", v |-> 0]

JNum(n) == [t |-> "num", v |-> n]

Amounts == {JNull, JNum(1), JNum(10)}

TxIds == {"", "tx1"}

(***************************************************************************)
(* Requests and responses                                                  *)
(***************************************************************************)
NoCall == [op |-> "none", user_id |-> 0, api_id |-> 0, name |-> "",
           amount |-> JNull, transaction_id |-> ""]

NoRequest == [url |-> <<>>, headers |-> {}, amount |-> JNull, price |-> JNull]

Response(status, kind, error, request) ==
    [status |-> status, kind |-> kind, error |-> error, request |-> request]

NoResponse == Response(0, "none", "", NoRequest)

Call(op, u, id, name, amount, tx) ==
    [op |-> op, user_id |-> u, api_id |-> id, name |-> name,
     amount |-> amount, transaction_id |-> tx]

(***************************************************************************)
(* Table apis                                                              *)
(***************************************************************************)
\* Mutation: the constraint is UNIQUE (name), over all users.
UniqueViolationAnyUser(u, name) ==
    \E r \in apis : r.name = name

\* UNIQUE (user_id, name)
UniqueViolation(u, name) ==
    \E r \in apis : r.user_id = u /\ r.name = name

\* Mutation: the deactivating UPDATE has no WHERE clause.
RowsOfAnyUser(u) == {r.id : r \in apis}

\* WHERE user_id = %s
RowsOfUser(u) == {r.id : r \in {x \in apis : x.user_id = u}}

\* WHERE id = %s AND user_id = %s
RowsOfUserWithId(u, id) ==
    {r.id : r \in {x \in apis : x.id = id /\ x.user_id = u}}

\* Mutation: the SELECT does not filter on is_active.
ActiveApisAnyFlag(u) == {r \in apis : r.user_id = u}

\* Mutation: the SELECT does not filter on user_id.
ActiveApisAnyUser(u) == {r \in apis : r.is_active}

\* SELECT ... WHERE user_id = %s AND is_active = TRUE
ActiveApis(u) == {r \in apis : r.user_id = u /\ r.is_active}

LockedByOther(p, id) == \E q \in Procs \ {p} : id \in locked[q]

\* The rows the statement slot p is executing has still to lock.
Wanted(p) ==
    IF pc[p] # "deactivate" THEN {}
    ELSE IF todo[p] # {} THEN todo[p]
    ELSE RowsOfUserWithId(call[p].user_id, call[p].api_id)

Blocked(p) == Wanted(p) # {} /\ \A id \in Wanted(p) : LockedByOther(p, id)

WaitsFor(p, q) == q # p /\ Blocked(p) /\ Wanted(p) \cap locked[q] # {}

RECURSIVE WaitClosure(_)
WaitClosure(S) ==
    LET T == S \cup {q \in Procs : \E x \in S : WaitsFor(x, q)}
    IN  IF T = S THEN S ELSE WaitClosure(T)

InLockCycle(p) == p \in WaitClosure({q \in Procs : WaitsFor(p, q)})

\* conn.commit(): the transaction's row versions replace the committed ones.
Committed(p) ==
    {IF r.id \in locked[p] THEN [r EXCEPT !.is_active = (r.id \in setTrue[p])]
     ELSE r : r \in apis}

Init ==
    /\ apis = {}
    /\ nextId = 1
    /\ pc = [p \in Procs |-> "idle"]
    /\ call = [p \in Procs |-> NoCall]
    /\ todo = [p \in Procs |-> {}]
    /\ locked = [p \in Procs |-> {}]
    /\ setTrue = [p \in Procs |-> {}]
    /\ rowcount = [p \in Procs |-> 0]
    /\ resp = [p \in Procs |-> NoResponse]

\* The handler of slot p returns response r.
Return(p, r) ==
    /\ pc' = [pc EXCEPT ![p] = "return"]
    /\ resp' = [resp EXCEPT ![p] = r]

\* conn.commit() or conn.rollback(): the transaction's row locks are released.
EndTransaction(p) ==
    /\ todo' = [todo EXCEPT ![p] = {}]
    /\ locked' = [locked EXCEPT ![p] = {}]
    /\ setTrue' = [setTrue EXCEPT ![p] = {}]
    /\ rowcount' = [rowcount EXCEPT ![p] = 0]

\* After the response: close_connection closes the request's connection.
close_connection(p) ==
    /\ pc[p] = "return"
    /\ pc' = [pc EXCEPT ![p] = "idle"]
    /\ call' = [call EXCEPT ![p] = NoCall]
    /\ resp' = [resp EXCEPT ![p] = NoResponse]
    /\ UNCHANGED <<apis, nextId, todo, locked, setTrue, rowcount>>

(***************************************************************************)
(* POST /apis                                                              *)
(***************************************************************************)
manage_apis(p, u, name, type, cred) ==
    /\ pc[p] = "idle"
    /\ nextId <= MaxId
    /\ nextId' = nextId + 1
    /\ call' = [call EXCEPT ![p] = Call("manage_apis", u, 0, name, JNull, "")]
    /\ IF name = Null
       THEN /\ apis' = apis
            /\ Return(p, Response(500, "InternalError", "NotNullViolation", NoRequest))
       ELSE IF UniqueViolation(u, name)
       THEN /\ apis' = apis
            /\ Return(p, Response(400, "DuplicateName", "", NoRequest))
       ELSE /\ apis' = apis \cup
                   {[id |-> nextId, user_id |-> u, name |-> name, type |-> type,
                     public_key |-> cred.publicKey, secret_key |-> cred.secretKey,
                     token |-> cred.token, is_active |-> FALSE]}
            /\ Return(p, Response(201, "Created", "", NoRequest))
    /\ UNCHANGED <<todo, locked, setTrue, rowcount>>

(***************************************************************************)
(* POST /apis/set-active/<api_id>                                          *)
(***************************************************************************)
\* The handler starts its first UPDATE, which sees the rows committed now.
set_active_api(p, u, id) ==
    /\ pc[p] = "idle"
    /\ pc' = [pc EXCEPT ![p] = "deactivate"]
    /\ call' = [call EXCEPT ![p] = Call("set_active_api", u, id, "", JNull, "")]
    /\ todo' = [todo EXCEPT ![p] = RowsOfUser(u)]
    /\ UNCHANGED <<apis, nextId, locked, setTrue, rowcount, resp>>

\* UPDATE apis SET is_active = FALSE WHERE user_id = %s, one row of it.
DeactivateRow(p, id) ==
    /\ pc[p] = "deactivate"
    /\ id \in todo[p]
    /\ ~LockedByOther(p, id)
    /\ locked' = [locked EXCEPT ![p] = @ \cup {id}]
    /\ todo' = [todo EXCEPT ![p] = @ \ {id}]
    /\ UNCHANGED <<apis, nextId, pc, call, setTrue, rowcount, resp>>

\* UPDATE apis SET is_active = TRUE WHERE id = %s AND user_id = %s
ActivateRow(p) ==
    /\ pc[p] = "deactivate"
    /\ todo[p] = {}
    /\ LET hit == RowsOfUserWithId(call[p].user_id, call[p].api_id)
       IN  /\ \A id \in hit : ~LockedByOther(p, id)
           /\ locked' = [locked EXCEPT ![p] = @ \cup hit]
           /\ setTrue' = [setTrue EXCEPT ![p] = hit]
           /\ rowcount' = [rowcount EXCEPT ![p] = Cardinality(hit)]
    /\ pc' = [pc EXCEPT ![p] = "commit"]
    /\ UNCHANGED <<apis, nextId, call, todo, resp>>

\* conn.commit(), then the response chosen by cursor.rowcount.
Commit(p) ==
    /\ pc[p] = "commit"
    /\ apis' = Committed(p)
    /\ EndTransaction(p)
    /\ Return(p, IF rowcount[p] = 0 THEN Response(404, "NotFound", "", NoRequest)
                 ELSE Response(200, "OK", "", NoRequest))
    /\ UNCHANGED <<nextId, call>>

\* cursor.execute raises (deadlock detected): conn.rollback(), 500.
DeadlockAbort(p) ==
    /\ pc[p] = "deactivate"
    /\ InLockCycle(p)
    /\ EndTransaction(p)
    /\ Return(p, Response(500, "InternalError", "DeadlockDetected", NoRequest))
    /\ UNCHANGED <<apis, nextId, call>>

StoreStep(p, inputs) ==
    \/ \E u \in Users, in \in inputs : manage_apis(p, u, in.name, in.type, in.cred)
    \/ \E u \in Users, id \in 1..MaxId : set_active_api(p, u, id)
    \/ \E id \in 1..MaxId : DeactivateRow(p, id)
    \/ ActivateRow(p)
    \/ Commit(p)
    \/ close_connection(p)

Next ==
    \E p \in Procs :
        \/ StoreStep(p, StoreInputs)
        \/ DeadlockAbort(p)

Spec == Init /\ [][Next]_vars

(***************************************************************************)
(* The outbound calls of POST /gerar-pix and GET /verificar-pix            *)
(***************************************************************************)
\* Whether the module binds the name requests; none of its imports does.
RequestsBound == FALSE

\* How requests.post(...) / requests.get(...) followed by raise_for_status()
\* and the reading of the answer can end.
CallOutcomes ==
    IF RequestsBound THEN {"ok", "RequestException"} ELSE {"NameError"}

\* try: the call; except requests.exceptions.RequestException: a 500 naming
\* the provider. An unbound name raises in the try and again in the except.
Send(provider, request, okKind, out) ==
    IF out = "ok" THEN Response(200, okKind, "", request)
    ELSE IF out = "RequestException"
    THEN Response(500, "GatewayError", provider, request)
    ELSE Response(500, "UncaughtException", out, request)

\* Mutation: the amount is sent as given.
TimesOne(amount) == amount

\* amount * 100
Times100(amount) == JNum(amount.v * 100)

OasyfyCreate(row, amount) ==
    [url |-> <<"POST", "https://app.oasyfy.com/api/v1/gateway/pix/receive">>,
     headers |-> {<<"Content-Type", "application/json">>,
                  <<"x-public-key", row.public_key>>,
                  <<"x-secret-key", row.secret_key>>},
     amount |-> amount, price |-> amount]

PushinpayCreate(row, amount) ==
    [url |-> <<"POST", "https://api.pushinpay.com.br/api/v1/pix/cashin">>,
     headers |-> {<<"Content-Type", "application/json">>,
                  <<"Authorization", row.token>>},
     amount |-> Times100(amount), price |-> Times100(amount)]

GhostpayCreate(row, amount) ==
    [url |-> <<"POST", "https://example.com.br/api/v1/transaction.purchase">>,
     headers |-> {<<"Content-Type", "application/json">>,
                  <<"Authorization", row.token>>},
     amount |-> Times100(amount), price |-> Times100(amount)]

\* The branch of gerar_pix chosen by the active row's type. None * 100 raises
\* TypeError while the body is built, outside the try.
CreatePayment(row, amount, out) ==
    IF row.type = "oasyfy"
    THEN Send("Oasyfy", OasyfyCreate(row, amount), "PaymentResult", out)
    ELSE IF row.type \in {"pushinpay", "ghostpay"} /\ amount.t # "num"
    THEN Response(500, "UncaughtException", "TypeError", NoRequest)
    ELSE IF row.type = "pushinpay"
    THEN Send("Pushinpay", PushinpayCreate(row, amount), "PaymentResult", out)
    ELSE IF row.type = "ghostpay"
    THEN Send("Ghostpay", GhostpayCreate(row, amount), "PaymentResult", out)
    ELSE Response(400, "UnsupportedProvider", "", NoRequest)

\* cursor.fetchone() of the SELECT of the active rows; then the dispatch.
gerar_pix_responses(u, amount) ==
    IF ActiveApis(u) = {}
    THEN {Response(400, "NoActiveProvider", "", NoRequest)}
    ELSE {CreatePayment(row, amount, out) : row \in ActiveApis(u), out \in CallOutcomes}

gerar_pix(p, u, amount) ==
    /\ pc[p] = "idle"
    /\ call' = [call EXCEPT ![p] = Call("gerar_pix", u, 0, "", amount, "")]
    /\ \E r \in gerar_pix_responses(u, amount) : Return(p, r)
    /\ UNCHANGED <<apis, nextId, todo, locked, setTrue, rowcount>>

OasyfyStatus(row, tx) ==
    [url |-> <<"GET", "https://app.oasyfy.com/api/v1/gateway/payments/", tx>>,
     headers |-> {<<"x-public-key", row.public_key>>,
                  <<"x-secret-key", row.secret_key>>},
     amount |-> JNull, price |-> JNull]

BearerStatus(row, tx) ==
    [url |-> <<"GET", "https://example.com.br/api/v1/transaction.getPayment?id=", tx>>,
     headers |-> {<<"Authorization", row.token>>},
     amount |-> JNull, price |-> JNull]

CheckPayment(row, tx, out) ==
    IF row.type = "oasyfy"
    THEN Send("Oasyfy", OasyfyStatus(row, tx), "StatusResult", out)
    ELSE IF row.type \in {"pushinpay", "ghostpay"}
    THEN Send(row.type, BearerStatus(row, tx), "StatusResult", out)
    ELSE Response(400, "UnsupportedProvider", "", NoRequest)

\* Mutation: the SELECT of the active row comes before the parameter check.
verificar_pix_select_first(u, tx) ==
    IF ActiveApis(u) = {}
    THEN {Response(400, "NoActiveProvider", "", NoRequest)}
    ELSE IF tx = ""
    THEN {Response(400, "MissingParameter", "", NoRequest)}
    ELSE {CheckPayment(row, tx, out) : row \in ActiveApis(u), out \in CallOutcomes}

\* if not transaction_id comes before the SELECT.
verificar_pix_responses(u, tx) ==
    IF tx = ""
    THEN {Response(400, "MissingParameter", "", NoRequest)}
    ELSE IF ActiveApis(u) = {}
    THEN {Response(400, "NoActiveProvider", "", NoRequest)}
    ELSE {CheckPayment(row, tx, out) : row \in ActiveApis(u), out \in CallOutcomes}

verificar_pix(p, u, tx) ==
    /\ pc[p] = "idle"
    /\ call' = [call EXCEPT ![p] = Call("verificar_pix", u, 0, "", JNull, tx)]
    /\ \E r \in verificar_pix_responses(u, tx) : Return(p, r)
    /\ UNCHANGED <<apis, nextId, todo, locked, setTrue, rowcount>>

\* One slot manages the configurations while the other one pays.
PayNext ==
    \/ \E p \in StoreProcs : StoreStep(p, PayInputs)
    \/ \E p \in PayProcs :
           \/ \E u \in Users, amount \in Amounts : gerar_pix(p, u, amount)
           \/ \E u \in Users, tx \in TxIds : verificar_pix(p, u, tx)
           \/ close_connection(p)

PaySpec == Init /\ [][PayNext]_vars

(***************************************************************************)
(* Properties                                                              *)
(***************************************************************************)
\* In this step the handler of slot p returns its response to an op request.
Returns(p, op) == pc[p] # "return" /\ pc'[p] = "return" /\ call'[p].op = op

\* This step is one of the handler running in slot p.
Steps(p) == <<pc[p], todo[p], locked[p]>>' # <<pc[p], todo[p], locked[p]>>

\* Slot p holds the response of a finished op request.
Returned(p, op) == pc[p] = "return" /\ call[p].op = op

ActiveIds(u) == {r.id : r \in {x \in apis : x.user_id = u /\ x.is_active}}

\* C1: in every committed state each user owns at most one configuration
\* with is_active = TRUE.
C1_AtMostOneActive == \A u \in Users : Cardinality(ActiveIds(u)) <= 1

\* C2: when two set-active calls of one user for different configurations have
\* both succeeded, exactly one of the two configurations is active, as after
\* either serial order of the two calls.
C2_SetActiveLinearizes ==
    \A p \in Procs : \A q \in Procs \ {p} :
        ( /\ Returned(p, "set_active_api") /\ Returned(q, "set_active_api")
          /\ call[p].user_id = call[q].user_id
          /\ call[p].api_id # call[q].api_id
          /\ resp[p].kind = "OK" /\ resp[q].kind = "OK" )
        => Cardinality(ActiveIds(call[p].user_id)
                         \cap {call[p].api_id, call[q].api_id}) = 1

\* C3: a set-active call of user U for a configuration of another user answers
\* NotFound and leaves every configuration of U and of that owner as it was.
C3_ForeignSetActiveChangesNothing ==
    [][\A p \in Procs :
          ( /\ Returns(p, "set_active_api")
            /\ pc[p] = "commit"
            /\ \E r \in apis : r.id = call[p].api_id /\ r.user_id # call[p].user_id )
          => /\ resp'[p].kind = "NotFound"
             /\ apis' = apis]_vars

\* C4: no step of a set-active call of user U, whatever its target and its
\* outcome, changes a configuration that U does not own.
C4_SetActiveScopedToUser ==
    [][\A p \in Procs :
          ( /\ Steps(p)
            /\ (call[p].op = "set_active_api" \/ call'[p].op = "set_active_api") )
          => LET u == IF call[p].op = "set_active_api"
                      THEN call[p].user_id ELSE call'[p].user_id
             IN  /\ \A r \in apis : r.user_id # u => r \in apis'
                 /\ \A r \in apis' : r.user_id # u => r \in apis]_vars

\* A set-active call that targeted an active configuration of another user has
\* answered NotFound, and that configuration is still active.
C4_Witness ==
    \E p \in Procs :
        /\ Returned(p, "set_active_api")
        /\ resp[p].kind = "NotFound"
        /\ \E r \in apis :
              r.id = call[p].api_id /\ r.user_id # call[p].user_id /\ r.is_active

\* C5: gerar_pix for a user none of whose configurations is active answers
\* NoActiveProvider and has built and sent no request to a gateway.
C5_NoActiveProviderNoCall ==
    [][\A p \in Procs :
          ( /\ Returns(p, "gerar_pix")
            /\ \A r \in apis : r.user_id = call'[p].user_id => ~r.is_active )
          => /\ resp'[p].kind = "NoActiveProvider"
             /\ resp'[p].status = 400
             /\ resp'[p].request = NoRequest]_vars

\* A user who owns configurations, none of them active, got NoActiveProvider.
C5_Witness ==
    \E p \in Procs :
        /\ Returned(p, "gerar_pix")
        /\ resp[p].kind = "NoActiveProvider"
        /\ \E r \in apis : r.user_id = call[p].user_id
        /\ ActiveIds(call[p].user_id) = {}

\* The credential headers the adapter of a row's type sends.
CredentialHeaders(r) ==
    IF r.type = "oasyfy"
    THEN {<<"x-public-key", r.public_key>>, <<"x-secret-key", r.secret_key>>}
    ELSE {<<"Authorization", r.token>>}

\* The provider types an endpoint belongs to.
EndpointTypes(url) ==
    IF url[2] \in {"https://app.oasyfy.com/api/v1/gateway/pix/receive",
                   "https://app.oasyfy.com/api/v1/gateway/payments/"}
    THEN {"oasyfy"}
    ELSE IF url[2] = "https://api.pushinpay.com.br/api/v1/pix/cashin"
    THEN {"pushinpay"}
    ELSE IF url[2] = "https://example.com.br/api/v1/transaction.purchase"
    THEN {"ghostpay"}
    ELSE {"pushinpay", "ghostpay"}

C7_NoUncaughtException ==
    \A p \in Procs :
        (Returned(p, "gerar_pix") \/ Returned(p, "verificar_pix"))
        => resp[p].kind # "UncaughtException"

C9_MissingTransactionId ==
    \A p \in Procs :
        (Returned(p, "verificar_pix") /\ call[p].transaction_id = "")
        => /\ resp[p].kind = "MissingParameter"
           /\ resp[p].status = 400
           /\ resp[p].request = NoRequest

\* MissingParameter was answered to a user without active configuration while
\* the configuration of a supported type of another user is active.
C9_Witness ==
    \E p \in Procs :
        /\ Returned(p, "verificar_pix")
        /\ call[p].transaction_id = ""
        /\ resp[p].kind = "MissingParameter"
        /\ ActiveIds(call[p].user_id) = {}
        /\ \E r \in apis : r.is_active /\ r.type = "oasyfy"

\* C10: POST /apis with a name the user already owns answers DuplicateName and
\* leaves table apis unchanged; with a name the user does not own yet, also
\* when another user owns it, it stores the one new (inactive) configuration.
C10_DuplicateNamePerUser ==
    [][\A p \in Procs :
          (Returns(p, "manage_apis") /\ call'[p].name # Null)
          => LET u == call'[p].user_id
                 n == call'[p].name
             IN  IF \E r \in apis : r.user_id = u /\ r.name = n
                 THEN resp'[p].kind = "DuplicateName" /\ apis' = apis
                 ELSE /\ resp'[p].kind = "Created"
                      /\ apis \subseteq apis'
                      /\ \E r \in apis' :
                            /\ apis' \ apis = {r}
                            /\ r.user_id = u /\ r.name = n /\ ~r.is_active]_vars

\* DuplicateName was answered to a user who owns the name.
C10_Witness ==
    \E p \in Procs :
        /\ Returned(p, "manage_apis")
        /\ resp[p].kind = "DuplicateName"
        /\ Cardinality({r \in apis : r.user_id = call[p].user_id
                                      /\ r.name = call[p].name}) = 1

====
